---- MODULE Spec2Model ----
(***************************************************************************)
(* ted: a terminal text editor (src/src/main.rs).                          *)
(*                                                                         *)
(* The document is a ropey Rope, modelled as the sequence of its chars.    *)
(* A Rope panics on an out-of-range line lookup, on a slice whose start is *)
(* after its end, and on a removal past its end; a panic ends the process. *)
(* Each action of Spec is one iteration of main's event loop: the dispatch *)
(* of one event followed by TermRenderer::update.                          *)
(*                                                                         *)
(* '\n' is the only line break of the documents modelled: it is the one    *)
(* columns() knows, and the one the Enter key gives.  SpecApply is         *)
(* Cursor::apply on its own, with every Movement, those no key gives       *)
(* included.  trip and hist are history variables: no code reads them.     *)
(***************************************************************************)
EXTENDS Integers, Sequences, FiniteSets, TLC

\* ------------------------------------------------------------------ bounds
\* longest document (chars, line breaks included)
MaxLen == 3
\* most cursors in the set
MaxCursors == 3
\* the terminal's height and width (cells)
TermHeight == 2
TermWidth == 2
\* largest count of a movement and largest argument of a Goto
MaxN == 2

NL == "\n"
Letters == {"a"}
Chars == Letters \cup {NL}

Min(a, b) == IF a <= b THEN a ELSE b

RECURSIVE SeqsUpTo(_, _)
SeqsUpTo(S, n) ==
  IF n = 0 THEN {<<>>}
  ELSE LET shorter == SeqsUpTo(S, n - 1)
       IN  shorter \cup {Append(s, c) : s \in {t \in shorter : Len(t) = n - 1}, c \in S}

\* ------------------------------------------------------------ Rope (ropey)
\* Rope::len_lines: one more than the number of line breaks
len_lines(rope) == Cardinality({i \in 1..Len(rope) : rope[i] = NL}) + 1

\* fn lines: the index of the last line
lines(rope) == len_lines(rope) - 1

\* Rope::line_to_char(i), for i <= len_lines: the offset of the first char of
\* line i (len_chars for i = len_lines)
line_to_char(rope, i) ==
  IF i = 0 THEN 0
  ELSE LET brk == {k \in 1..Len(rope) :
                     rope[k] = NL /\ Cardinality({j \in 1..k : rope[j] = NL}) = i}
       IN  IF brk = {} THEN Len(rope) ELSE CHOOSE k \in brk : TRUE

\* Rope::line(i), for i < len_lines: line i with its line break, if it has one
line(rope, i) ==
  LET from == line_to_char(rope, i)
      to   == IF i < lines(rope) THEN line_to_char(rope, i + 1) ELSE Len(rope)
  IN  SubSeq(rope, from + 1, to)

\* Rope::line panics for i >= len_lines
LineOk(rope, i) == i < len_lines(rope)

\* fn columns: the chars of a line, a trailing '\n' not counted
columns(l) ==
  LET max == Len(l)
  IN  IF max > 0 /\ l[max] = NL THEN max - 1 ELSE max

\* fn end: the offset of the end of the document
end(rope) ==
  LET last == lines(rope)
  IN  line_to_char(rope, last) + columns(line(rope, last))

\* Rope::insert_char(pos, c), for pos <= len_chars
insert_char(rope, pos, c) ==
  SubSeq(rope, 1, pos) \o <<c>> \o SubSeq(rope, pos + 1, Len(rope))

\* Rope::remove(pos..pos + 1), for pos + 1 <= len_chars
remove(rope, pos) ==
  SubSeq(rope, 1, pos) \o SubSeq(rope, pos + 2, Len(rope))

\* ------------------------------------------------------------------ Cursor
\* Cursor::new
Cursor(l, c) == [line |-> l, col |-> c]

\* Cursor::columns (panics unless LineOk)
CursorColumns(c, rope) == columns(line(rope, c.line))

\* Cursor::col: the clamped column (panics unless LineOk)
CursorCol(c, rope) == Min(c.col, CursorColumns(c, rope))

\* Cursor::pos: the buffer offset (panics unless LineOk)
CursorPos(c, rope) == line_to_char(rope, c.line) + CursorCol(c, rope)

\* Movement, as [op, a, b]: a is the count, line or column, b the column of Goto
Move(op, a, b) == [op |-> op, a |-> a, b |-> b]

\* ApplyUp that also resets the stored column
ApplyUpResetsCol(c, n) == Cursor(IF c.line >= n THEN c.line - n ELSE 0, 0)

\* Movement::Up
ApplyUp(c, n) == [c EXCEPT !.line = IF c.line >= n THEN c.line - n ELSE 0]

\* ApplyDown without the saturation at the last line
ApplyDownPastEnd(c, rope, n) == [c EXCEPT !.line = c.line + n]

\* ApplyDown that also clamps the stored column to the line it reaches
ApplyDownClampsCol(c, rope, n) ==
  LET to == IF c.line + n >= lines(rope) THEN lines(rope) ELSE c.line + n
  IN  Cursor(to, Min(c.col, columns(line(rope, to))))

\* Movement::Down
ApplyDown(c, rope, n) ==
  [c EXCEPT !.line = IF c.line + n >= lines(rope) THEN lines(rope) ELSE c.line + n]

\* the loop of Movement::Left
RECURSIVE LeftLoop(_, _, _)
LeftLoop(c, rope, n) ==
  IF n = 0 THEN c
  ELSE IF c.col > 0 THEN LeftLoop(Cursor(c.line, c.col - 1), rope, n - 1)
  ELSE IF c.line > 0
       THEN LeftLoop(Cursor(c.line - 1, columns(line(rope, c.line - 1))), rope, n - 1)
  ELSE c

\* ApplyLeft without resolving the stored column to the clamped one first
ApplyLeftKeepsStoredCol(c, rope, n) == LeftLoop(c, rope, n)

\* Movement::Left
ApplyLeft(c, rope, n) == LeftLoop(Cursor(c.line, CursorCol(c, rope)), rope, n)

\* the loop of Movement::Right
RECURSIVE RightLoop(_, _, _)
RightLoop(c, rope, n) ==
  IF n = 0 THEN c
  ELSE IF c.col < CursorColumns(c, rope) THEN RightLoop(Cursor(c.line, c.col + 1), rope, n - 1)
  ELSE IF c.line < lines(rope) THEN RightLoop(Cursor(c.line + 1, 0), rope, n - 1)
  ELSE c

\* ApplyRight without resolving the stored column to the clamped one first
ApplyRightKeepsStoredCol(c, rope, n) == RightLoop(c, rope, n)

\* Movement::Right
ApplyRight(c, rope, n) == RightLoop(Cursor(c.line, CursorCol(c, rope)), rope, n)

\* Movement::LineBegin
ApplyLineBegin(c) == IF c.col = 0 THEN ApplyUp(c, 1) ELSE Cursor(c.line, 0)

\* Movement::LineEnd
ApplyLineEnd(c, rope) ==
  LET moved == IF c.col >= CursorColumns(c, rope) THEN ApplyDown(c, rope, 1) ELSE c
  IN  Cursor(moved.line, CursorColumns(moved, rope))

\* Movement::Goto
ApplyGoto(rope, l, col) ==
  LET to == Min(l, lines(rope))
  IN  Cursor(to, Min(col, columns(line(rope, to))))

\* Cursor::apply panics when it looks up a line the document does not have
ApplyPanics(c, rope, m) ==
  /\ m.op \in {"Left", "Right", "LineEnd", "GotoCol"}
  /\ ~LineOk(rope, c.line)

\* Cursor::apply, where it does not panic
apply(c, rope, m) ==
  CASE m.op = "Up"        -> ApplyUp(c, m.a)
    [] m.op = "Down"      -> ApplyDown(c, rope, m.a)
    [] m.op = "Left"      -> ApplyLeft(c, rope, m.a)
    [] m.op = "Right"     -> ApplyRight(c, rope, m.a)
    [] m.op = "LineBegin" -> ApplyLineBegin(c)
    [] m.op = "LineEnd"   -> ApplyLineEnd(c, rope)
    [] m.op = "Begin"     -> Cursor(0, 0)
    [] m.op = "End"       -> Cursor(lines(rope), columns(line(rope, lines(rope))))
    [] m.op = "Goto"      -> ApplyGoto(rope, m.a, m.b)
    [] m.op = "GotoLine"  -> Cursor(Min(m.a, lines(rope)), c.col)
    [] m.op = "GotoCol"   -> Cursor(c.line, Min(m.a, CursorColumns(c, rope)))

\* ------------------------------------------------------------------ Editor
\* the editor while a handler runs: panic is set once the handler has panicked
Ed(rope, cursors, panic) == [rope |-> rope, cursors |-> cursors, panic |-> panic]

Panicked(st) == [st EXCEPT !.panic = TRUE]

\* the body of `for cursor in &mut self.cursors { cursor.apply(&self.rope, m) }`
StepMove(st, i, m) ==
  IF ApplyPanics(st.cursors[i], st.rope, m) THEN Panicked(st)
  ELSE [st EXCEPT !.cursors[i] = apply(@, st.rope, m)]

\* the loop body of Key::Char(c)
StepChar(st, i, ch) ==
  LET c == st.cursors[i]
  IN  IF ~LineOk(st.rope, c.line) THEN Panicked(st)
      ELSE LET r == insert_char(st.rope, CursorPos(c, st.rope), ch)
           IN  [st EXCEPT !.rope = r, !.cursors[i] = apply(c, r, Move("Right", 1, 0))]

\* the loop body of Key::Backspace
StepBackspace(st, i) ==
  LET c == st.cursors[i]
  IN  IF ~LineOk(st.rope, c.line) THEN Panicked(st)
      ELSE IF CursorPos(c, st.rope) > 0
      THEN LET moved == apply(c, st.rope, Move("Left", 1, 0))
               pos == CursorPos(moved, st.rope)
           IN  IF pos + 1 > Len(st.rope) THEN Panicked([st EXCEPT !.cursors[i] = moved])
               ELSE [st EXCEPT !.rope = remove(st.rope, pos), !.cursors[i] = moved]
      ELSE st

\* the loop body of Key::Delete
StepDelete(st, i) ==
  LET c == st.cursors[i]
  IN  IF ~LineOk(st.rope, c.line) THEN Panicked(st)
      ELSE IF CursorPos(c, st.rope) < end(st.rope)
      THEN LET moved == apply(c, st.rope, Move("GotoCol", CursorCol(c, st.rope), 0))
               pos == CursorPos(moved, st.rope)
           IN  IF pos + 1 > Len(st.rope) THEN Panicked([st EXCEPT !.cursors[i] = moved])
               ELSE [st EXCEPT !.rope = remove(st.rope, pos), !.cursors[i] = moved]
      ELSE st

\* the Movement a movement key applies to every cursor
KeyMovement(k, height) ==
  CASE k = "Up"       -> Move("Up", 1, 0)
    [] k = "Down"     -> Move("Down", 1, 0)
    [] k = "Left"     -> Move("Left", 1, 0)
    [] k = "Right"    -> Move("Right", 1, 0)
    [] k = "Home"     -> Move("Begin", 0, 0)
    [] k = "End"      -> Move("End", 0, 0)
    [] k = "PageUp"   -> Move("Up", height, 0)
    [] k = "PageDown" -> Move("Down", height, 0)
    [] k = "CtrlA"    -> Move("LineBegin", 0, 0)
    [] k = "CtrlE"    -> Move("LineEnd", 0, 0)

MovementKeys ==
  {"Up", "Down", "Left", "Right", "Home", "End", "PageUp", "PageDown", "CtrlA", "CtrlE"}

\* one cursor's turn in the loop of key k
KeyStep(k, ch, height, st, i) ==
  CASE k \in MovementKeys -> StepMove(st, i, KeyMovement(k, height))
    [] k = "Char"         -> StepChar(st, i, ch)
    [] k = "Backspace"    -> StepBackspace(st, i)
    [] k = "Delete"       -> StepDelete(st, i)

\* `for cursor in &mut self.cursors`, in set order; a panic ends it
RECURSIVE KeyLoop(_, _, _, _, _)
KeyLoop(k, ch, height, st, i) ==
  IF st.panic \/ i > Len(st.cursors) THEN st
  ELSE KeyLoop(k, ch, height, KeyStep(k, ch, height, st, i), i + 1)

\* AddAbove that pushes the new cursor at the back of the vector
AddAboveAppends(st) ==
  LET c == st.cursors[1]
  IN  IF c.line > 0
      THEN [st EXCEPT !.cursors = Append(@, Cursor(c.line - 1, c.col))]
      ELSE st

\* Key::Alt('j'): a cursor above the first one
AddAbove(st) ==
  LET c == st.cursors[1]
  IN  IF c.line > 0
      THEN [st EXCEPT !.cursors = <<Cursor(c.line - 1, c.col)>> \o @]
      ELSE st

\* AddBelow that clamps the new cursor's column to its line
AddBelowClampsCol(st) ==
  LET c == st.cursors[Len(st.cursors)]
  IN  IF c.line < lines(st.rope)
      THEN [st EXCEPT !.cursors =
              Append(@, Cursor(c.line + 1, Min(c.col, columns(line(st.rope, c.line + 1)))))]
      ELSE st

\* Key::Alt('k'): a cursor below the last one
AddBelow(st) ==
  LET c == st.cursors[Len(st.cursors)]
  IN  IF c.line < lines(st.rope)
      THEN [st EXCEPT !.cursors = Append(@, Cursor(c.line + 1, c.col))]
      ELSE st

\* Collapse that drops no cursor
CollapseDropsNone(st) == st

\* Key::Esc: self.cursors.drain(1..)
Collapse(st) == [st EXCEPT !.cursors = SubSeq(@, 1, 1)]

\* KeyDraw with Backspace returning false
KeyDrawBackspaceFalse(k) == k \in {"Char", "Delete", "AltJ", "AltK", "Esc"}

\* the value Editor::key returns for key k
KeyDraw(k) == k \in {"Char", "Backspace", "Delete", "AltJ", "AltK", "Esc"}

\* Editor::key, but for its return value
key(k, ch, height, st) ==
  CASE k = "AltJ"  -> AddAbove(st)
    [] k = "AltK"  -> AddBelow(st)
    [] k = "Esc"   -> Collapse(st)
    [] k = "Other" -> st
    [] OTHER       -> KeyLoop(k, ch, height, st, 1)

\* mouse that takes the terminal's 1-based coordinates for 0-based ones
MouseZeroBased(st, press, mouse_x, mouse_y, x, y) ==
  IF press
  THEN [st EXCEPT !.cursors[1] = apply(@, st.rope, Move("Goto", y + mouse_y, x + mouse_x))]
  ELSE st

\* Editor::mouse: a left press moves the first cursor, anything else nothing
mouse(st, press, mouse_x, mouse_y, x, y) ==
  IF press
  THEN [st EXCEPT !.cursors[1] = apply(@, st.rope, Move("Goto", y + (mouse_y - 1), x + (mouse_x - 1)))]
  ELSE st

\* Editor::save panics unless the file is created, written and synced
SaveResults == {"ok", "create_failed", "write_failed", "sync_failed"}
save(st, io) == IF io = "ok" THEN st ELSE Panicked(st)

\* ------------------------------------------------------------ Editor::draw
\* the clamped columns of the cursors on line index, in set order
RECURSIVE CursorsOn(_, _, _)
CursorsOn(cursors, l, index) ==
  IF cursors = <<>> THEN <<>>
  ELSE LET c == Head(cursors)
           rest == CursorsOn(Tail(cursors), l, index)
       IN  IF c.line = index THEN <<Min(c.col, columns(l))>> \o rest ELSE rest

\* Vec::sort
RECURSIVE Sort(_)
Sort(s) ==
  IF s = <<>> THEN <<>>
  ELSE LET m == CHOOSE k \in 1..Len(s) : \A j \in 1..Len(s) : s[k] <= s[j]
       IN  <<s[m]>> \o Sort(SubSeq(s, 1, m - 1) \o SubSeq(s, m + 1, Len(s)))

Cell(ch, inv) == [ch |-> ch, inv |-> inv]

Normal(l, from, to) == [k \in 1..(to - from) |-> Cell(l[from + k], FALSE)]

\* the fold of draw: RopeSlice::slice(last..column) panics when last > column
RECURSIVE DrawFold(_, _, _, _)
DrawFold(l, cols, last, cells) ==
  IF cols = <<>>
  THEN [panic |-> FALSE,
        cells |-> IF last < Len(l) THEN cells \o Normal(l, last, Len(l)) ELSE cells]
  ELSE LET column == Head(cols)
       IN  IF last > column THEN [panic |-> TRUE, cells |-> cells]
           ELSE DrawFold(l, Tail(cols), column + 1,
                         cells \o Normal(l, last, column)
                               \o <<Cell(IF column < Len(l) THEN l[column + 1] ELSE " ", TRUE)>>)

\* Editor::draw of the visible slice l of line index: the cells it writes
draw(cursors, l, index) == DrawFold(l, Sort(CursorsOn(cursors, l, index)), 0, <<>>)

\* ------------------------------------------------------------ TermRenderer
\* ScrollY without the + 1 of the snap down
ScrollYOffByOne(cur, y, height) ==
  LET y1 == IF cur < y THEN cur ELSE y
  IN  IF cur >= y1 + height THEN cur - height ELSE y1

\* update: top line after the two line tests
ScrollY(cur, y, height) ==
  LET y1 == IF cur < y THEN cur ELSE y
  IN  IF cur >= y1 + height THEN cur - height + 1 ELSE y1

\* ScrollX without the + 1 of the snap right
ScrollXOffByOne(cur, x, width) ==
  LET x1 == IF cur < x THEN cur ELSE x
  IN  IF cur >= x1 + width THEN cur - width ELSE x1

\* update: left column after the two column tests
ScrollX(cur, x, width) ==
  LET x1 == IF cur < x THEN cur ELSE x
  IN  IF cur >= x1 + width THEN cur - width + 1 ELSE x1

\* update: need_update, which starts true
need_update(cur_line, cur_col, y, x, height, width) ==
  LET start == TRUE
  IN  start \/ cur_line < y \/ cur_line >= y + height \/ cur_col < x \/ cur_col >= x + width

\* update: the part of line l that is shown
Visible(l, x, width) ==
  LET max == columns(l)
  IN  SubSeq(l, Min(x, max) + 1, Min(x + width, max))

\* update: the repaint of the lines y .. y + height - 1 that exist, from line
\* index on; a panic in draw ends it
RECURSIVE RepaintFrom(_, _, _, _, _, _)
RepaintFrom(st, index, last, x, width, rows) ==
  IF index > last THEN [panic |-> FALSE, rows |-> rows]
  ELSE LET row == draw(st.cursors, Visible(line(st.rope, index), x, width), index)
       IN  IF row.panic THEN [panic |-> TRUE, rows |-> rows]
           ELSE RepaintFrom(st, index + 1, last, x, width, Append(rows, row.cells))

\* update: `.skip(self.y).take(self.height)` of the document's lines, drawn
Repaint(st, y, x, height, width) ==
  RepaintFrom(st, y, Min(y + height - 1, lines(st.rope)), x, width, <<>>)

\* TermRenderer::update: the new origin and what is written to the screen
update(st, y, x, height, width, redraw) ==
  LET cur_line == st.cursors[1].line
      ny == ScrollY(cur_line, y, height)
  IN  IF ~LineOk(st.rope, cur_line)
      THEN [panic |-> TRUE, y |-> ny, x |-> x, full |-> FALSE, rows |-> <<>>]
      ELSE LET cur_col == CursorCol(st.cursors[1], st.rope)
               nx == ScrollX(cur_col, x, width)
               full == redraw \/ need_update(cur_line, cur_col, y, x, height, width)
               paint == IF full THEN Repaint(st, ny, nx, height, width)
                        ELSE [panic |-> FALSE, rows |-> <<>>]
           IN  [panic |-> paint.panic, y |-> ny, x |-> nx, full |-> full,
                rows |-> IF paint.panic THEN <<>> ELSE paint.rows]

\* ------------------------------------------------------------------- state
VARIABLES
  rope,     \* Editor::rope
  cursors,  \* Editor::cursors
  y, x,     \* TermRenderer::y, x: the line and column at the screen's origin
  height,   \* TermRenderer::height
  width,    \* TermRenderer::width
  status,   \* "start" before the first update, "running", "quit", "panicked"
  evt,      \* the event handled last: its name, the draw flag it gave update,
            \* for a save its outcome, for a mouse press its coordinates
  out,      \* what the last update wrote: full repaint or not, and the rows
  trip,     \* history: the characters typed last at a single cursor, and the
            \* backspaces that followed them
  hist      \* history of SpecApply: the movements applied last

vars == <<rope, cursors, y, x, height, width, status, evt, out, trip, hist>>

Docs == SeqsUpTo(Chars, MaxLen)

Evt(name, redraw, io) ==
  [name |-> name, draw |-> redraw, io |-> io, at |-> <<0, 0>>]

NoOut == [full |-> FALSE, rows |-> <<>>]

NoTrip == [phase |-> "none", typed |-> <<>>, left |-> 0, rope |-> <<>>, line |-> 0, col |-> 0]

NoHist == [orig |-> Cursor(0, 0), m1 |-> Move("none", 0, 0), m2 |-> Move("none", 0, 0)]

\* main, up to the first update: the document is the file's content, or empty;
\* Editor::new puts one cursor at (0, 0); TermRenderer::new reads the size
Init ==
  /\ rope \in Docs
  /\ cursors = <<Cursor(0, 0)>>
  /\ y = 0
  /\ x = 0
  /\ height = TermHeight
  /\ width = TermWidth
  /\ status = "start"
  /\ evt = Evt("none", FALSE, "none")
  /\ out = NoOut
  /\ trip = NoTrip
  /\ hist = NoHist

\* the history of typing and backspacing at a single cursor
TripNext(name, ch, st) ==
  IF st.panic \/ Len(cursors) # 1 \/ Len(st.cursors) # 1 THEN NoTrip
  ELSE IF name = "Char"
  THEN IF trip.phase = "ins"
       THEN [trip EXCEPT !.typed = Append(@, ch), !.left = @ + 1]
       ELSE [phase |-> "ins", typed |-> <<ch>>, left |-> 1, rope |-> rope,
             line |-> cursors[1].line, col |-> CursorCol(cursors[1], rope)]
  ELSE IF name = "Backspace" /\ trip.phase \in {"ins", "del"} /\ trip.left > 0
  THEN [trip EXCEPT !.phase = "del", !.left = @ - 1]
  ELSE NoTrip

\* the rest of an iteration of the event loop, once the event is dispatched:
\* renderer.update(&editor, &mut screen, draw)
Render(st, redraw) ==
  IF st.panic
  THEN /\ rope' = st.rope
       /\ cursors' = st.cursors
       /\ status' = "panicked"
       /\ UNCHANGED <<y, x, out>>
  ELSE \E u \in {update(st, y, x, height, width, redraw)} :
           /\ rope' = st.rope
           /\ cursors' = st.cursors
           /\ y' = u.y
           /\ x' = u.x
           /\ status' = IF u.panic THEN "panicked" ELSE "running"
           /\ out' = IF u.panic THEN out ELSE [full |-> u.full, rows |-> u.rows]

Now == Ed(rope, cursors, FALSE)

\* main: renderer.update(&editor, &mut screen, true) before the loop
Start ==
  /\ status = "start"
  /\ Render(Now, TRUE)
  /\ evt' = Evt("start", TRUE, "none")
  /\ UNCHANGED <<height, width, trip, hist>>

\* Event::Key(key) => editor.key(key, renderer.height - 1)
KeyEvent(k, ch) ==
  /\ \E st \in {key(k, ch, height - 1, Now)} :
       /\ Render(st, KeyDraw(k))
       /\ trip' = TripNext(k, ch, st)
  /\ evt' = Evt(k, KeyDraw(k), "none")
  /\ UNCHANGED <<height, width, hist>>

KeyUp == status = "running" /\ KeyEvent("Up", "")
KeyDown == status = "running" /\ KeyEvent("Down", "")
KeyLeft == status = "running" /\ KeyEvent("Left", "")
KeyRight == status = "running" /\ KeyEvent("Right", "")
KeyHome == status = "running" /\ KeyEvent("Home", "")
KeyEnd == status = "running" /\ KeyEvent("End", "")
KeyPageUp == status = "running" /\ KeyEvent("PageUp", "")
KeyPageDown == status = "running" /\ KeyEvent("PageDown", "")
KeyCtrlA == status = "running" /\ KeyEvent("CtrlA", "")
KeyCtrlE == status = "running" /\ KeyEvent("CtrlE", "")
KeyBackspace == status = "running" /\ KeyEvent("Backspace", "")
KeyDelete == status = "running" /\ KeyEvent("Delete", "")
KeyEsc == status = "running" /\ KeyEvent("Esc", "")
\* any key Editor::key has no arm for
KeyOther == status = "running" /\ KeyEvent("Other", "")

\* Key::Char(c), while the document stays within MaxLen
KeyChar ==
  /\ status = "running"
  /\ Len(rope) + Len(cursors) <= MaxLen
  /\ \E ch \in Chars : KeyEvent("Char", ch)

\* Key::Alt('j'), while the set stays within MaxCursors
KeyAltJ ==
  /\ status = "running"
  /\ Len(cursors) < MaxCursors \/ cursors[1].line = 0
  /\ KeyEvent("AltJ", "")

\* Key::Alt('k'), while the set stays within MaxCursors
KeyAltK ==
  /\ status = "running"
  /\ Len(cursors) < MaxCursors \/ cursors[Len(cursors)].line >= lines(rope)
  /\ KeyEvent("AltK", "")

\* Event::Key(Key::Ctrl('s')): save to args().nth(1), if there is one
KeyCtrlS ==
  /\ status = "running"
  /\ \E io \in SaveResults \cup {"no_path"} :
       /\ Render(IF io = "no_path" THEN Now ELSE save(Now, io), FALSE)
       /\ evt' = Evt("CtrlS", FALSE, io)
  /\ trip' = NoTrip
  /\ UNCHANGED <<height, width, hist>>

\* Event::Key(Key::Ctrl('q')) => break
KeyCtrlQ ==
  /\ status = "running"
  /\ status' = "quit"
  /\ evt' = Evt("CtrlQ", FALSE, "none")
  /\ trip' = NoTrip
  /\ UNCHANGED <<rope, cursors, y, x, height, width, out, hist>>

\* Event::Mouse(mouse) => editor.mouse(mouse, renderer.x, renderer.y); the
\* terminal reports cells from (1, 1)
MouseEvt ==
  /\ status = "running"
  /\ \E press \in BOOLEAN, mouse_x \in 1..width, mouse_y \in 1..height :
       /\ Render(mouse(Now, press, mouse_x, mouse_y, x, y), FALSE)
       /\ evt' = IF press
                 THEN [Evt("MousePress", FALSE, "none") EXCEPT !.at = <<mouse_x, mouse_y>>]
                 ELSE Evt("MouseOther", FALSE, "none")
  /\ trip' = NoTrip
  /\ UNCHANGED <<height, width, hist>>

\* any other event: `_ => { false }`
OtherEvt ==
  /\ status = "running"
  /\ Render(Now, FALSE)
  /\ evt' = Evt("Unsupported", FALSE, "none")
  /\ trip' = NoTrip
  /\ UNCHANGED <<height, width, hist>>

Next ==
  \/ Start
  \/ KeyUp \/ KeyDown \/ KeyLeft \/ KeyRight \/ KeyHome \/ KeyEnd
  \/ KeyPageUp \/ KeyPageDown \/ KeyCtrlA \/ KeyCtrlE
  \/ KeyChar \/ KeyBackspace \/ KeyDelete
  \/ KeyAltJ \/ KeyAltK \/ KeyEsc \/ KeyOther
  \/ KeyCtrlS \/ KeyCtrlQ \/ MouseEvt \/ OtherEvt

Spec == Init /\ [][Next]_vars

\* --------------------------------------------------- Cursor::apply, alone
\* SpecApply calls Cursor::apply with any Movement on a cursor whose line the
\* document has; hist keeps the cursor before the last movement m1, and m2
\* when m2 is the movement that undoes m1 (or repeats a Left)
Back(m1, m2) ==
  /\ m1.a = m2.a
  /\ <<m1.op, m2.op>> \in
       {<<"Left", "Right">>, <<"Right", "Left">>, <<"Up", "Down">>, <<"Left", "Left">>}

HistNext(m) ==
  IF hist.m1.op # "none" /\ hist.m2.op = "none" /\ Back(hist.m1, m)
  THEN [hist EXCEPT !.m2 = m]
  ELSE [orig |-> cursors[1], m1 |-> m, m2 |-> Move("none", 0, 0)]

InitApply ==
  /\ rope \in Docs
  /\ \E l \in 0..MaxLen, c \in 0..MaxLen :
       /\ LineOk(rope, l)
       /\ cursors = <<Cursor(l, c)>>
  /\ y = 0
  /\ x = 0
  /\ height = TermHeight
  /\ width = TermWidth
  /\ status = "running"
  /\ evt = Evt("none", FALSE, "none")
  /\ out = NoOut
  /\ trip = NoTrip
  /\ hist = NoHist

\* cursor.apply(&rope, m)
Applied(m) ==
  /\ ~ApplyPanics(cursors[1], rope, m)
  /\ cursors' = <<apply(cursors[1], rope, m)>>
  /\ hist' = HistNext(m)
  /\ UNCHANGED <<rope, y, x, height, width, status, evt, out, trip>>

Counts == 0..MaxN
Args == 0..(MaxLen + 1)

MoveUp == status = "running" /\ \E n \in Counts : Applied(Move("Up", n, 0))
MoveDown == status = "running" /\ \E n \in Counts : Applied(Move("Down", n, 0))
MoveLeft == status = "running" /\ \E n \in Counts : Applied(Move("Left", n, 0))
MoveRight == status = "running" /\ \E n \in Counts : Applied(Move("Right", n, 0))
MoveBegin == status = "running" /\ Applied(Move("Begin", 0, 0))
MoveEnd == status = "running" /\ Applied(Move("End", 0, 0))
MoveLineBegin == status = "running" /\ Applied(Move("LineBegin", 0, 0))
MoveLineEnd == status = "running" /\ Applied(Move("LineEnd", 0, 0))
MoveGoto == status = "running" /\ \E l \in Args, c \in Args : Applied(Move("Goto", l, c))
MoveGotoLine == status = "running" /\ \E l \in Args : Applied(Move("GotoLine", l, 0))
MoveGotoCol == status = "running" /\ \E c \in Args : Applied(Move("GotoCol", c, 0))

NextApply ==
  \/ MoveUp \/ MoveDown \/ MoveLeft \/ MoveRight
  \/ MoveBegin \/ MoveEnd \/ MoveLineBegin \/ MoveLineEnd
  \/ MoveGoto \/ MoveGotoLine \/ MoveGotoCol

SpecApply == InitApply /\ [][NextApply]_vars

\* ------------------------------------------------------------------ claims
Primary == cursors[1]

HandledKeys == MovementKeys \cup {"Char", "Backspace", "Delete", "AltJ", "AltK", "Esc", "Other"}

SaveFailures == SaveResults \ {"ok"}

\* C1: after any sequence of events every cursor of the set is on a line the
\* document has (line < lineCount), so that no lookup is out of range
C1_CursorsInRange == \A i \in 1..Len(cursors) : LineOk(rope, cursors[i].line)

\* C2: after every update that returns, the primary cursor's line is in
\* [y, y + height) and its clamped column in [x, x + width)
C2_ViewportHoldsCursor ==
  status = "running" =>
    /\ LineOk(rope, Primary.line)
    /\ y <= Primary.line /\ Primary.line < y + height
    /\ x <= CursorCol(Primary, rope) /\ CursorCol(Primary, rope) < x + width

\* C2 witness: an update has scrolled down, the cursor is on the last row shown
C2_ScrolledDown ==
  /\ status = "running"
  /\ evt.name # "start"
  /\ y > 0
  /\ Primary.line = y + height - 1

\* C3: an event that gives update draw = false, leaves the document as it is
\* and does not move the origin takes the cheap path: no full repaint
C3_CheapPath ==
  [][(/\ status = "running" /\ status' = "running"
      /\ ~evt'.draw /\ rope' = rope /\ y' = y /\ x' = x) => ~out'.full]_vars

\* C4, as claimed: Editor::key returns true exactly when the key changed the
\* document content
C4_TrueIffContentChanged ==
  [][(status' = "running" /\ evt'.name \in HandledKeys)
       => (evt'.draw <=> rope' # rope)]_vars

\* C4, amended: Editor::key returns true whenever the key changed the document
\* content; it returns false for every movement key and every key it has no arm
\* for, and true for a character, backspace, delete, add-cursor-above,
\* add-cursor-below and collapse, whether or not the content changed
C4_TrueWhenContentChanged ==
  [][(status' = "running" /\ evt'.name \in HandledKeys)
       => /\ rope' # rope => evt'.draw
          /\ evt'.name \in MovementKeys \cup {"Other"} => ~evt'.draw
          /\ evt'.name \notin MovementKeys \cup {"Other"} => evt'.draw]_vars

\* C4 witness: add-cursor-above has added a cursor and returned true
C4_AddAboveReturnedTrue ==
  /\ status = "running"
  /\ evt.name = "AltJ"
  /\ evt.draw
  /\ Len(cursors) = 2

\* C5: with a single cursor, n characters typed one by one and then n
\* backspaces leave the document as it was and the cursor on its line and
\* clamped column
C5_TypeThenBackspace ==
  (status = "running" /\ trip.phase = "del" /\ trip.left = 0) =>
    /\ rope = trip.rope
    /\ Primary.line = trip.line
    /\ CursorCol(Primary, rope) = trip.col

\* C6: after Cursor::apply of any Movement on a cursor whose line the document
\* has, the cursor's line is one the document has and its clamped column is at
\* most the columns of that line
C6_MovementKeepsCursorInRange ==
  \A i \in 1..Len(cursors) :
    /\ 0 <= cursors[i].line
    /\ LineOk(rope, cursors[i].line)
    /\ CursorCol(cursors[i], rope) <= CursorColumns(cursors[i], rope)

\* C6 witness: a Goto past the last line and the last column has been applied
C6_GotoPastEnd ==
  /\ hist.m1.op = "Goto"
  /\ hist.m2.op = "none"
  /\ hist.m1.a > lines(rope)
  /\ hist.m1.b > CursorColumns(Primary, rope)
  /\ lines(rope) > 0

\* the first movement of hist stopped at the start or the end of the document
Saturated ==
  \/ hist.m1.op = "Left" /\ CursorPos(hist.orig, rope) < hist.m1.a
  \/ hist.m1.op = "Right" /\ CursorPos(hist.orig, rope) + hist.m1.a > end(rope)

SamePlace(c, d) == c.line = d.line /\ CursorCol(c, rope) = CursorCol(d, rope)

\* C7: Left(n) then Right(n), and Right(n) then Left(n), bring the cursor back
\* to its line and clamped column unless the first one saturated; at the start
\* of the document Left changes nothing of the clamped position, however often
C7_LeftRightRoundTrip ==
  /\ (/\ <<hist.m1.op, hist.m2.op>> \in {<<"Left", "Right">>, <<"Right", "Left">>}
      /\ ~Saturated) => SamePlace(Primary, hist.orig)
  /\ (/\ hist.m1.op = "Left"
      /\ hist.m2.op \in {"none", "Left"}
      /\ CursorPos(hist.orig, rope) = 0) => SamePlace(Primary, hist.orig)

\* C7 witness: Left(n) across a line break, then Right(n)
C7_BackAcrossLineBreak ==
  /\ hist.m1.op = "Left"
  /\ hist.m2.op = "Right"
  /\ hist.m1.a >= 2
  /\ ~Saturated
  /\ hist.orig.line > 0
  /\ CursorCol(hist.orig, rope) < hist.m1.a

\* C8, as claimed: Up(n) then Down(n) restores the cursor's line and column
C8_UpDownRestores ==
  (hist.m1.op = "Up" /\ hist.m2.op = "Down") => Primary = hist.orig

\* C8, amended: Up(n) then Down(n) restores the cursor's line and column when
\* Up did not saturate at line 0 (n <= line)
C8_UpDownRestoresUnlessSaturated ==
  (hist.m1.op = "Up" /\ hist.m2.op = "Down" /\ hist.m1.a <= hist.orig.line)
    => Primary = hist.orig

\* C8 witness: Up(n) to a shorter line and Down(n) back, the column kept
C8_UpDownOverShorterLine ==
  /\ hist.m1.op = "Up"
  /\ hist.m2.op = "Down"
  /\ hist.m1.a >= 1
  /\ hist.m1.a <= hist.orig.line
  /\ hist.orig.col > columns(line(rope, hist.orig.line - hist.m1.a))

\* C9: the set starts as one cursor at (0, 0) and never gets empty; its length
\* changes only by add-cursor-above (+1 or 0), add-cursor-below (+1 or 0) and
\* collapse (to 1)
C9_CursorSetLength ==
  /\ cursors = <<Cursor(0, 0)>>
  /\ [][/\ Len(cursors') >= 1
        /\ evt'.name \in {"AltJ", "AltK"} => Len(cursors') \in {Len(cursors), Len(cursors) + 1}
        /\ evt'.name = "Esc" => Len(cursors') = 1
        /\ evt'.name \notin {"AltJ", "AltK", "Esc"} => Len(cursors') = Len(cursors)]_vars

\* C9 witness: add-cursor-below has put a second cursor under the first
C9_SecondCursorAdded ==
  /\ status = "running"
  /\ evt.name = "AltK"
  /\ Len(cursors) = 2
  /\ cursors[2] = Cursor(Primary.line + 1, Primary.col)

\* C10: a save that fails does not end the program: the event loop goes on
C10_SaveFailureSurvived ==
  (evt.name = "CtrlS" /\ evt.io \in SaveFailures) => status = "running"

\* the buffer offset of the single cursor when the typing of trip began
TripPos == line_to_char(trip.rope, trip.line) + trip.col

\* C11: characters s typed at a single cursor at offset p of document D give
\* D[0..p] + s + D[p..], and leave the cursor at offset p + |s|
C11_TypedTextInserted ==
  (status = "running" /\ trip.phase = "ins") =>
    /\ rope = SubSeq(trip.rope, 1, TripPos) \o trip.typed
                \o SubSeq(trip.rope, TripPos + 1, Len(trip.rope))
    /\ LineOk(rope, Primary.line)
    /\ CursorPos(Primary, rope) = TripPos + Len(trip.typed)

\* C12 as stated: a cursor added above or below is placed after every existing
\* cursor, so the existing cursors stay a prefix of the sequence
C12_AddedCursorPlacedLast ==
  [][evt'.name \in {"AltJ", "AltK"} =>
       SubSeq(cursors', 1, Len(cursors)) = cursors]_vars

\* C12: add-cursor-below keeps the existing cursors as a prefix of the
\* sequence (element 0 stays); add-cursor-above either changes nothing or puts
\* the new cursor, one line above the old element 0, in front of the existing
\* cursors, which keep their order behind it
C12_AddedCursorPlacement ==
  [][/\ evt'.name = "AltK" => SubSeq(cursors', 1, Len(cursors)) = cursors
     /\ evt'.name = "AltJ" =>
          \/ cursors' = cursors
          \/ /\ Len(cursors') = Len(cursors) + 1
             /\ cursors'[1] = Cursor(cursors[1].line - 1, cursors[1].col)
             /\ SubSeq(cursors', 2, Len(cursors')) = cursors]_vars

\* C12 witness: add-cursor-above has put the new cursor in front of two
\* cursors on the two lines below it
C12_NewPrimaryAbove ==
  /\ status = "running"
  /\ evt.name = "AltJ"
  /\ Len(cursors) = 3
  /\ cursors[2].line = cursors[1].line + 1
  /\ cursors[3].line = cursors[2].line + 1

\* C13: add-cursor-below appends a cursor at (lastLine + 1, lastCol) behind the
\* last cursor when that cursor is above the last line, and changes nothing
\* otherwise; the document and the existing cursors stay; the new cursor reads
\* back the column min(lastCol, columns(lastLine + 1)); a collapse leaves
\* exactly element 0, which add-cursor-below has not touched
C13_AddBelow ==
  [][/\ evt'.name = "AltK" =>
          LET last == cursors[Len(cursors)]
          IN  /\ rope' = rope
              /\ cursors'[1] = cursors[1]
              /\ cursors' = IF last.line < lines(rope)
                            THEN Append(cursors, Cursor(last.line + 1, last.col))
                            ELSE cursors
              /\ last.line < lines(rope) =>
                   CursorCol(cursors'[Len(cursors')], rope')
                     = Min(last.col, columns(line(rope, last.line + 1)))
     /\ evt'.name = "Esc" => cursors' = <<cursors[1]>>]_vars

\* C13 witness: add-cursor-below has put a third cursor behind two others, on
\* a line shorter than the column it inherited
C13_AddedBelowPastLineEnd ==
  /\ status = "running"
  /\ evt.name = "AltK"
  /\ Len(cursors) = 3
  /\ cursors[3] = Cursor(cursors[2].line + 1, cursors[2].col)
  /\ cursors[3].col > CursorCol(cursors[3], rope)

\* C14: a repaint is defined whatever cursors stand on one line: the fold over
\* their sorted clamped columns only takes segments [last, column) with
\* last <= column, also when two cursors have the same clamped column
C14_SegmentsOrdered ==
  status \in {"running", "panicked"} =>
    \A i \in 0..lines(rope) :
      ~draw(cursors, Visible(line(rope, i), x, width), i).panic

\* C15: after a full repaint, every cursor on a shown line whose clamped column
\* c is inside [x, x + width) has an inverted cell at screen column c - x, and
\* the cell shows the document's character at column c, or a blank at line end
C15_CursorCellsShown ==
  (status = "running" /\ out.full) =>
    \A i \in y..Min(y + height - 1, lines(rope)) :
      \A k \in 1..Len(cursors) :
        LET l == line(rope, i)
            c == CursorCol(cursors[k], rope)
            row == out.rows[i - y + 1]
        IN  (cursors[k].line = i /\ c \in x..(x + width - 1)) =>
              /\ Len(row) > c - x
              /\ row[c - x + 1] = Cell(IF c < columns(l) THEN l[c + 1] ELSE " ", TRUE)

\* the movement applied last, as hist records it
LastMove(h) == IF h.m2.op # "none" THEN h.m2 ELSE h.m1

\* C16: Left(n) takes the cursor from offset p to max(0, p - n) and Right(n) to
\* min(end of document, p + n), across line breaks; afterwards the stored
\* column is the clamped column
C16_LeftRightByOffset ==
  [][LET m == LastMove(hist')
         p == CursorPos(cursors[1], rope)
         q == CursorPos(cursors'[1], rope')
     IN  /\ m.op = "Left" => q = (IF p >= m.a THEN p - m.a ELSE 0)
         /\ m.op = "Right" => q = Min(end(rope), p + m.a)
         /\ m.op \in {"Left", "Right"} =>
              /\ LineOk(rope', cursors'[1].line)
              /\ cursors'[1].col = CursorCol(cursors'[1], rope')]_vars

\* C16 witness: Right(n) has taken a cursor whose stored column was past the
\* end of its line over the line break
C16_RightOverLineBreak ==
  /\ hist.m1.op = "Right"
  /\ hist.m2.op = "none"
  /\ hist.orig.col > CursorCol(hist.orig, rope)
  /\ Primary.line > hist.orig.line
  /\ CursorPos(Primary, rope) = CursorPos(hist.orig, rope) + hist.m1.a

\* C17: Up(n) and Down(n) change the line only, to max(0, line - n) and to
\* min(last line, line + n); the stored column stays, also when it is past the
\* end of the line reached; the document stays
C17_UpDownLineOnly ==
  [][LET m == LastMove(hist')
         c == cursors[1]
     IN  /\ m.op = "Up" =>
              cursors' = <<Cursor(IF c.line >= m.a THEN c.line - m.a ELSE 0, c.col)>>
         /\ m.op = "Down" =>
              cursors' = <<Cursor(Min(lines(rope), c.line + m.a), c.col)>>
         /\ m.op \in {"Up", "Down"} => rope' = rope]_vars

\* C17 witness: Down(n) has reached a line shorter than the stored column
C17_DownOntoShorterLine ==
  /\ hist.m1.op = "Down"
  /\ hist.m2.op = "none"
  /\ Primary.line = hist.orig.line + hist.m1.a
  /\ hist.m1.a >= 1
  /\ Primary.col = hist.orig.col
  /\ Primary.col > CursorColumns(Primary, rope)

\* C18: a left press at the 1-based (mouse_x, mouse_y) puts the primary cursor
\* on line L = min(y + mouse_y - 1, last line) at column
\* min(x + mouse_x - 1, columns(L)); the other cursors, their number and the
\* document stay; any other mouse event changes no cursor and no character
C18_MousePlacesPrimary ==
  [][/\ evt'.name = "MousePress" =>
          LET L == Min(y + evt'.at[2] - 1, lines(rope))
          IN  /\ cursors' = [cursors EXCEPT
                               ![1] = Cursor(L, Min(x + evt'.at[1] - 1, columns(line(rope, L))))]
              /\ rope' = rope
     /\ evt'.name = "MouseOther" => (cursors' = cursors /\ rope' = rope)]_vars

\* C18 witness: a press right of the end of the last line has put the primary
\* cursor at that line's end, away from a second cursor
C18_PressClampedToLineEnd ==
  /\ status = "running"
  /\ evt.name = "MousePress"
  /\ Len(cursors) = 2
  /\ Primary.line = lines(rope)
  /\ Primary.line # cursors[2].line
  /\ Primary.col = columns(line(rope, Primary.line))
  /\ Primary.col < evt.at[1] - 1

\* C19: update moves the origin in one exact snap: the top line becomes the
\* primary cursor's line when that is above it, that line - height + 1 when it
\* is at or below top line + height, and stays otherwise; the left column
\* likewise, with the clamped column and the width
C19_ScrollSnap ==
  [][status' = "running" =>
       LET l == cursors'[1].line
           c == CursorCol(cursors'[1], rope')
       IN  /\ y' = IF l < y THEN l
                   ELSE IF l >= y + height THEN l - height + 1
                   ELSE y
           /\ x' = IF c < x THEN c
                   ELSE IF c >= x + width THEN c - width + 1
                   ELSE x]_vars

\* C19 witness: the view has snapped right, the primary cursor is in its last
\* column
C19_SnappedRight ==
  /\ status = "running"
  /\ x > 0
  /\ CursorCol(Primary, rope) = x + width - 1
  /\ evt.name \in MovementKeys

\* the cursors stand on lines of the document, no two on the same line
DistinctLines ==
  /\ \A i \in 1..Len(cursors) : LineOk(rope, cursors[i].line)
  /\ \A i, j \in 1..Len(cursors) : i # j => cursors[i].line # cursors[j].line

\* line l after character ch went in at column c
LineWith(l, c, ch) == SubSeq(l, 1, c) \o <<ch>> \o SubSeq(l, c + 1, Len(l))

\* C20: with all cursors on distinct lines, a character other than a line break
\* goes into each cursor's line at the cursor's clamped column, each cursor
\* moves to the next column of its line, and the document grows by one
\* character per cursor
C20_CharAtEveryCursor ==
  [][(evt'.name = "Char" /\ len_lines(rope') = len_lines(rope) /\ DistinctLines) =>
       /\ Len(rope') = Len(rope) + Len(cursors)
       /\ Len(cursors') = Len(cursors)
       /\ \A i \in 1..Len(cursors) :
            cursors'[i] = Cursor(cursors[i].line, CursorCol(cursors[i], rope) + 1)
       /\ \E ch \in Letters :
            \A l \in 0..lines(rope) :
              line(rope', l) =
                IF \E i \in 1..Len(cursors) : cursors[i].line = l
                THEN LET i == CHOOSE i \in 1..Len(cursors) : cursors[i].line = l
                     IN  LineWith(line(rope, l), CursorCol(cursors[i], rope), ch)
                ELSE line(rope, l)]_vars

====
